---------------------------- MODULE Spec2Model ----------------------------
(***************************************************************************)
(* Model of Task2/app.py: the feedback service.  Worker threads handle     *)
(* POST /submit, GET /admin and GET /export concurrently; they share the   *)
(* module globals AI_ENABLED and gemini_model and the JSON file DATA_FILE.  *)
(* A step of a thread is the code between two accesses to shared state     *)
(* (a global, the provider, the clock, the file).                          *)
(***************************************************************************)
EXTENDS Integers, Sequences, FiniteSets, TLC

\* ------------------------------------------------------------------ bounds
\* Requests (or direct calls) started in one run of the process.
MaxRequests == 2
\* datetime.now() reads a microsecond count in 0..MaxClock.
MaxClock == 1
\* Records in DATA_FILE when a store function is called on its own.
MaxStored == 2
\* Lines in a reply of the provider when every reply is tried.
MaxLines == 3
\* Records in DATA_FILE when only the read endpoints are called.
MaxShown == 3

Threads == {"w1", "w2"}

\* ------------------------------------------------------- program constants
\* A retry loop of one more turn.
MAX_ATTEMPTS_Three == 2 + 1
MAX_ATTEMPTS == 2
MAX_REVIEW_LEN == 1000
MIN_RATING == 1
MAX_RATING == 5
DEFAULT_RATING == 3
NEUTRAL_RATING == 3
USEC_PER_SEC == 1000000

\* ---------------------------------------------------------------- values
\* Python's None, and a local that is not assigned yet.
None == [k |-> "None"]
Unset == [k |-> "unset"]

\* A str that is only measured (the review): `lead` white-space characters,
\* then `body` characters that start and end with a non-space, then `trail`
\* white-space characters.
Str(lead, body, trail) == [k |-> "str", lead |-> lead, body |-> body, trail |-> trail]
StrLen(s) == s.lead + s.body + s.trail
StrStrip(s) == IF s.body = 0 THEN Str(0, 0, 0) ELSE Str(0, s.body, 0)
StrTruthy(s) == StrLen(s) > 0

\* Provider text: a sequence of lines (joined by "\n"), a line a sequence of
\* tokens.  A token is one of the three labels, a blank, a delimiter of the
\* suggestion list, or a word.
RESPONSE_LABEL == "RESPONSE TO CUSTOMER:"
SUMMARY_LABEL == "SUMMARY:"
SUGGESTIONS_LABEL == "SUGGESTIONS:"
BLANK == " "
Delimiters == {",", "\\u2022", "-"}

Text(lines) == [k |-> "text", lines |-> lines]

RECURSIVE LStrip(_)
LStrip(line) ==
  IF line # <<>> /\ Head(line) = BLANK THEN LStrip(Tail(line)) ELSE line

RECURSIVE RStrip(_)
RStrip(line) ==
  IF line # <<>> /\ line[Len(line)] = BLANK
    THEN RStrip(SubSeq(line, 1, Len(line) - 1))
    ELSE line

\* str.strip() on one line.
Strip(line) == RStrip(LStrip(line))

IsBlankLine(line) == Strip(line) = <<>>

RECURSIVE DropLeadingBlank(_)
DropLeadingBlank(lines) ==
  IF lines # <<>> /\ IsBlankLine(Head(lines))
    THEN DropLeadingBlank(Tail(lines))
    ELSE lines

RECURSIVE DropTrailingBlank(_)
DropTrailingBlank(lines) ==
  IF lines # <<>> /\ IsBlankLine(lines[Len(lines)])
    THEN DropTrailingBlank(SubSeq(lines, 1, Len(lines) - 1))
    ELSE lines

\* A text returned as the provider gave it.
TextStrip_Identity(lines) == lines

\* str.strip() on a whole text: white space and line breaks go from both
\* ends, the inner lines stay as they are.
TextStrip(lines) ==
  LET core == DropTrailingBlank(DropLeadingBlank(lines))
      n == Len(core)
  IN IF n = 0 THEN <<>>
     ELSE IF n = 1 THEN <<Strip(core[1])>>
     ELSE <<LStrip(core[1])>> \o SubSeq(core, 2, n - 1) \o <<RStrip(core[n])>>

\* bool(text): the empty string is zero lines, or one line of no tokens.
TextTruthy(lines) == lines # <<>> /\ lines # << <<>> >>

\* line.startswith(label)
StartsWith(line, label) == line # <<>> /\ Head(line) = label

\* line.replace(label, ""): every occurrence goes.
RECURSIVE Remove(_, _)
Remove(line, label) ==
  IF line = <<>> THEN <<>>
  ELSE IF Head(line) = label THEN Remove(Tail(line), label)
  ELSE <<Head(line)>> \o Remove(Tail(line), label)

\* re.split(r",|•|-", s): the pieces between delimiters, empty ones kept.
RECURSIVE SplitAcc(_, _)
SplitAcc(line, cur) ==
  IF line = <<>> THEN <<cur>>
  ELSE IF Head(line) \in Delimiters THEN <<cur>> \o SplitAcc(Tail(line), <<>>)
  ELSE SplitAcc(Tail(line), Append(cur, Head(line)))

Split(line) == SplitAcc(line, <<>>)

RECURSIVE StripNonEmpty(_)
StripNonEmpty(pieces) ==
  IF pieces = <<>> THEN <<>>
  ELSE LET s == Strip(Head(pieces))
       IN IF s # <<>> THEN <<s>> \o StripNonEmpty(Tail(pieces))
          ELSE StripNonEmpty(Tail(pieces))

\* A suggestions line kept as one item.
SplitSuggestions_Whole(line) == IF Strip(line) = <<>> THEN <<>> ELSE <<Strip(line)>>

\* [s.strip() for s in re.split(...) if s.strip()]
SplitSuggestions(line) == StripNonEmpty(Split(line))

Triple(cr, sm, sg) == [customer_response |-> cr, summary |-> sm, suggestions |-> sg]

\* The loop over ai_output.splitlines(): a later labelled line overwrites an
\* earlier one.
RECURSIVE ParseLines(_, _)
ParseLines(lines, acc) ==
  IF lines = <<>> THEN acc
  ELSE LET line == Strip(Head(lines))
           next ==
             IF StartsWith(line, RESPONSE_LABEL)
               THEN [acc EXCEPT !.customer_response = Strip(Remove(line, RESPONSE_LABEL))]
             ELSE IF StartsWith(line, SUMMARY_LABEL)
               THEN [acc EXCEPT !.summary = Strip(Remove(line, SUMMARY_LABEL))]
             ELSE IF StartsWith(line, SUGGESTIONS_LABEL)
               THEN [acc EXCEPT !.suggestions =
                       SplitSuggestions(Strip(Remove(line, SUGGESTIONS_LABEL)))]
             ELSE acc
       IN ParseLines(Tail(lines), next)

Parse(lines) == ParseLines(lines, Triple(<<>>, <<>>, <<>>))

\* The test of line 174 without its last conjunct.
ParseComplete_TwoFields(tr) ==
  tr.customer_response # <<>> /\ tr.summary # <<>>

\* `if customer_response and summary and suggestions`
ParseComplete(tr) ==
  tr.customer_response # <<>> /\ tr.summary # <<>> /\ tr.suggestions # <<>>


\* ------------------------------------------------------ the fallback table
Phrase(s) == <<s>>

fallback_responses ==
  [r \in MIN_RATING..MAX_RATING |->
    CASE r = 1 -> Triple(
           Phrase("We sincerely apologize for your disappointing experience and will urgently review what went wrong."),
           Phrase("Critical 1-star review requiring immediate attention."),
           << Phrase("Reach out to the customer personally"),
              Phrase("Review staff performance on this shift"),
              Phrase("Check food and service quality controls") >>)
      [] r = 2 -> Triple(
           Phrase("Thank you for your honest feedback. We're sorry we fell short and will work to address these issues."),
           Phrase("Mostly negative experience with clear improvement areas."),
           << Phrase("Investigate specific complaints"),
              Phrase("Provide coaching or retraining where needed"),
              Phrase("Offer a goodwill gesture if appropriate") >>)
      [] r = 3 -> Triple(
           Phrase("Thank you for sharing your experience. We'll use your feedback to make improvements."),
           Phrase("Neutral or mixed review with room for improvement."),
           << Phrase("Identify key pain points mentioned"),
              Phrase("Review processes related to the feedback"),
              Phrase("Monitor similar feedback trends") >>)
      [] r = 4 -> Triple(
           Phrase("Thank you for the positive review! We're glad you enjoyed your visit and hope to see you again soon."),
           Phrase("Generally positive review with minor issues."),
           << Phrase("Share praise with staff"),
              Phrase("Address any small issues mentioned"),
              Phrase("Encourage customer to return / leave public review") >>)
      [] r = 5 -> Triple(
           Phrase("Thank you for the amazing review! We're thrilled you had a great experience."),
           Phrase("Excellent review with high satisfaction."),
           << Phrase("Celebrate with the team"),
              Phrase("Consider featuring this as a testimonial"),
              Phrase("Maintain the standards praised by the customer") >>)]

\* A lookup that takes the nearest entry for a rating outside the table.
FallbackLookup_Nearest(rating) ==
  IF rating < MIN_RATING THEN fallback_responses[MIN_RATING]
  ELSE IF rating > MAX_RATING THEN fallback_responses[MAX_RATING]
  ELSE fallback_responses[rating]

\* fallback_responses.get(rating, fallback_responses[3])
FallbackLookup(rating) ==
  IF rating \in DOMAIN fallback_responses
    THEN fallback_responses[rating]
    ELSE fallback_responses[NEUTRAL_RATING]

\* Lines 158-232 without the test of line 174.
ResponsesFrom_Unchecked(ai_output, rating) ==
  IF ai_output.k = "text" /\ TextTruthy(ai_output.lines)
    THEN Parse(ai_output.lines)
    ELSE FallbackLookup(rating)

\* Lines 158-232 of generate_ai_responses: what it returns once
\* generate_ai_content has returned ai_output.
ResponsesFrom(ai_output, rating) ==
  IF ai_output.k = "text" /\ TextTruthy(ai_output.lines)
       /\ ParseComplete(Parse(ai_output.lines))
    THEN Parse(ai_output.lines)
    ELSE FallbackLookup(rating)

\* ------------------------------------------------------------ the provider
\* What one gemini_model.generate_content(prompt) does: it raises, or it
\* returns a response whose .text is None or a str and that has no
\* .candidates, or whose candidates[0].content.parts[0].text raises or is a
\* str.
Raise(exc) == [k |-> "raise", exc |-> exc]
Response(text, cand) == [k |-> "response", text |-> text, cand |-> cand]
NoCandidates == [k |-> "absent"]

WellFormed ==
  Text(<< <<RESPONSE_LABEL, BLANK, "A">>,
          <<SUMMARY_LABEL, BLANK, "B">>,
          <<SUGGESTIONS_LABEL, BLANK, "C", ",", BLANK, "D", ",", BLANK, "E">>,
          <<BLANK>> >>)
NoSuggestionsLine ==
  Text(<< <<RESPONSE_LABEL, BLANK, "A">>, <<SUMMARY_LABEL, BLANK, "B">> >>)
EmptyText == Text(<<>>)

\* What the provider does in one invocation: it raises, it returns text in
\* the format asked for (with a trailing blank line) or without its last
\* line, it returns no text, or it returns no text and has an empty
\* candidate list.
Responses ==
  { Raise("Exception"),
    Response(WellFormed, NoCandidates),
    Response(NoSuggestionsLine, NoCandidates),
    Response(EmptyText, NoCandidates),
    Response(None, Raise("IndexError")) }

Falsy(text) == text.k = "None" \/ ~TextTruthy(text.lines)

\* An attempt that treats a reply without text as a failure.
AttemptResult_EmptyFails(response) ==
  IF response.k = "raise" THEN response
  ELSE IF Falsy(response.text) THEN Raise("ValueError")
  ELSE Text(TextStrip(response.text.lines))

\* Lines 109-115: the value one attempt returns, or the exception it raises.
AttemptResult(response) ==
  IF response.k = "raise" THEN response
  ELSE LET text == IF Falsy(response.text) /\ response.cand.k # "absent"
                     THEN response.cand
                     ELSE response.text
       IN IF text.k = "raise" THEN text
          ELSE IF Falsy(text) THEN None
          ELSE Text(TextStrip(text.lines))

\* --------------------------------------------------------- request bodies
Missing == [k |-> "missing"]
JNull == [k |-> "null"]
JInt(n) == [k |-> "int", v |-> n]
\* A JSON number with a fraction, in tenths (25 is 2.5).
JFloat(tenths) == [k |-> "float", v |-> tenths]
\* A JSON string: one int() accepts ("4", " 4 ") or not ("abc", "2.5").
JStr(numeric, n) == [k |-> "str", numeric |-> numeric, v |-> n]
JBool(b) == [k |-> "bool", v |-> IF b THEN 1 ELSE 0]

Value(v) == [k |-> "value", v |-> v]

\* int(x)
ToInt(x) ==
  CASE x.k = "int" -> Value(x.v)
    [] x.k = "bool" -> Value(x.v)
    [] x.k = "float" -> Value(IF x.v >= 0 THEN x.v \div 10 ELSE -((-x.v) \div 10))
    [] x.k = "str" -> IF x.numeric THEN Value(x.v) ELSE Raise("ValueError")
    [] OTHER -> Raise("TypeError")

\* data.get("rating", 3)
GetRating(data) == IF data.rating.k = "missing" THEN JInt(DEFAULT_RATING) ELSE data.rating

\* (data.get("review") or "").strip()
GetReview(data) ==
  LET v == data.review
  IN CASE v.k \in {"missing", "null"} -> Value(Str(0, 0, 0))
       [] v.k = "str" -> Value(StrStrip(v))
       [] v.k = "int" -> IF v.v = 0 THEN Value(Str(0, 0, 0)) ELSE Raise("AttributeError")
       [] OTHER -> Raise("AttributeError")

\* The ratings a body carries: the integers around both ends of the range, a
\* fraction, a string that is no number, and no rating at all.
RatingInputs ==
  { JInt(MIN_RATING - 1), JInt(MIN_RATING), JInt(MAX_RATING), JInt(MAX_RATING + 1),
    JFloat(59), JStr(FALSE, 0), Missing }

\* The reviews: white space only, the longest review allowed with white space
\* around it, and one character too long.
ReviewInputs ==
  { Str(1, 0, 1), Str(1, MAX_REVIEW_LEN, 1), Str(0, MAX_REVIEW_LEN + 1, 0) }

\* request.json: it raises (no JSON body) or is a JSON object, here also one
\* with no review, a null rating or a number for a review.
Bodies ==
  { [k |-> "bad"] }
    \cup { [k |-> "object", rating |-> r, review |-> v] :
             r \in RatingInputs, v \in ReviewInputs }
    \cup { [k |-> "object", rating |-> JInt(MAX_RATING), review |-> v] :
             v \in {Missing, JInt(5)} }
    \cup { [k |-> "object", rating |-> JNull, review |-> Str(1, MAX_REVIEW_LEN, 1)] }

\* ------------------------------------------------------------------ state
VARIABLES
  phase,           \* "import", "data" (init_data_file done), "serving", "failed"
  GEMINI_API_KEY,  \* whether the environment sets it
  gemini_model,    \* None or the model object
  AI_ENABLED,
  file,            \* what DATA_FILE holds
  nreq,            \* requests (or direct calls) started so far
  accepted,        \* the submissions answered 200, in order: record and clock reading
  sent,            \* the HTTP response sent last
  ret,             \* the last direct call of a function: its argument and result
  pc,              \* where each worker thread is
  caller,          \* who called generate_ai_responses
  req,             \* the body of the request a thread has received
  rating, review, attempt, ai_output, ai_data,
  provided,        \* what the provider did when the thread invoked it last
  now,             \* what datetime.now() read at line 288
  submission, submissions,
  invocations      \* provider invocations of the current generate_ai_content call

globals == <<phase, GEMINI_API_KEY, gemini_model, AI_ENABLED, file, nreq, accepted, sent, ret>>
locals == <<pc, caller, req, rating, review, attempt, ai_output, ai_data, provided, now,
            submission, submissions, invocations>>
vars == <<globals, locals>>

Model == [k |-> "model"]

\* DATA_FILE: absent, not JSON, a JSON object or number, or a JSON list.
Absent == [k |-> "absent"]
Corrupt == [k |-> "corrupt"]
JObject == [k |-> "object"]
JNumber == [k |-> "number"]
JList(recs) == [k |-> "list", recs |-> recs]

InitialFiles == {Absent, Corrupt, JObject, JNumber, JList(<<>>)}

\* A read that rewrites a file it could not read or parse.
FileAfterRead_Repairing(f) == IF f.k \in {"absent", "corrupt"} THEN JList(<<>>) ELSE f

\* open(DATA_FILE, "r"): the file is as it was.
FileAfterRead(f) == f

\* get_submissions(): json.load's value, and [] when open or json.load raises.
get_submissions(f) ==
  IF f.k \in {"absent", "corrupt"} THEN JList(<<>>) ELSE f

\* save_submissions(): open(DATA_FILE, "w") raises and the file is as it was,
\* or the file is truncated and json.dump raises part-way, or it is written.
SaveOutcomes == {"written", "open raises", "dump raises"}

\* A save that reads the file again and adds the last record to what it
\* finds there.
save_submissions_Merging(f, subs, outcome) ==
  CASE outcome = "written" ->
         JList(IF f.k = "list" /\ subs # <<>>
                 THEN Append(f.recs, subs[Len(subs)])
                 ELSE subs)
    [] outcome = "open raises" -> f
    [] outcome = "dump raises" -> Corrupt

save_submissions(f, subs, outcome) ==
  CASE outcome = "written" -> JList(subs)
    [] outcome = "open raises" -> f
    [] outcome = "dump raises" -> Corrupt

\* Lines 62-63 and 73-74: open(DATA_FILE, "w") and json.dump([], f), with the
\* outcomes of a write.
WriteEmpty(f, outcome) ==
  CASE outcome = "written" -> JList(<<>>)
    [] outcome = "open raises" -> f
    [] outcome = "dump raises" -> Corrupt

\* An init_data_file that writes [] whatever the file holds.
init_data_file_Reset(f, outcome) == WriteEmpty(f, outcome)

\* init_data_file(): what DATA_FILE holds afterwards.
init_data_file(f, outcome) ==
  IF f.k = "absent" THEN WriteEmpty(f, outcome)
  ELSE IF f.k # "list" THEN WriteEmpty(f, outcome)
  ELSE f

\* init_data_file catches nothing around its writes: a write that fails
\* raises out of it, and the import of the module fails.
InitRaises(f, outcome) == f.k # "list" /\ outcome # "written"

\* A save_submissions that swallows its failures.
SaveRaises_Swallowed(outcome) == FALSE

\* save_submissions has no try/except: a failure reaches its caller.
SaveRaises(outcome) == outcome # "written"

\* strftime("%Y%m%d%H%M%S%f"): the seconds, then six digits of microseconds.
FormatId(dt) == ((dt \div USEC_PER_SEC) * USEC_PER_SEC) + (dt % USEC_PER_SEC)

Clock == 0..MaxClock

\* A direct call of function fn with argument arg returned value.
Return(fn, arg, value) == [fn |-> fn, arg |-> arg, value |-> value]
NoReturn == Return("", Unset, Unset)

NoRecord == [k |-> "none"]
Record(id, r, rv, tr) ==
  [id |-> id, rating |-> r, review |-> rv,
   ai_response |-> tr.customer_response, ai_summary |-> tr.summary,
   ai_actions |-> tr.suggestions]

\* An HTTP response; exc is the exception line 311 caught, payload what a
\* read endpoint returned.
Reply(status, error, ai_response, exc, payload) ==
  [status |-> status, error |-> error, ai_response |-> ai_response, exc |-> exc,
   payload |-> payload]
Success(ai_response) == Reply(200, "", ai_response, "", Unset)
ClientError(msg) == Reply(400, msg, <<>>, "", Unset)
ServerError(exc) == Reply(500, "Internal server error", <<>>, exc, Unset)
NothingSent == Reply(0, "", <<>>, "", Unset)

\* Lines 276-283 without the check of the rating.
Validate_NoRange(r, rv) ==
  IF ~StrTruthy(rv) THEN "Please write a review."
  ELSE IF StrLen(rv) > MAX_REVIEW_LEN THEN "Review too long (max 1000 characters)."
  ELSE ""

\* Lines 276-283: the message of the check that fails, "" when none does.
Validate(r, rv) ==
  IF ~StrTruthy(rv) THEN "Please write a review."
  ELSE IF r < MIN_RATING \/ r > MAX_RATING THEN "Rating must be between 1 and 5."
  ELSE IF StrLen(rv) > MAX_REVIEW_LEN THEN "Review too long (max 1000 characters)."
  ELSE ""

IdleThreads ==
  /\ pc = [t \in Threads |-> "idle"]
  /\ caller = [t \in Threads |-> ""]
  /\ req = [t \in Threads |-> Unset]
  /\ rating = [t \in Threads |-> Unset]
  /\ review = [t \in Threads |-> Unset]
  /\ attempt = [t \in Threads |-> 0]
  /\ ai_output = [t \in Threads |-> Unset]
  /\ provided = [t \in Threads |-> Unset]
  /\ ai_data = [t \in Threads |-> Unset]
  /\ now = [t \in Threads |-> 0]
  /\ submission = [t \in Threads |-> NoRecord]
  /\ submissions = [t \in Threads |-> <<>>]

\* The module is being imported: line 239 has not run yet.
Init ==
  /\ phase = "import"
  /\ GEMINI_API_KEY \in BOOLEAN
  /\ gemini_model = None
  /\ AI_ENABLED = FALSE
  /\ file \in InitialFiles
  /\ nreq = 0
  /\ accepted = <<>>
  /\ sent = NothingSent
  /\ ret = NoReturn
  /\ IdleThreads
  /\ invocations = [t \in Threads \cup {"main"} |-> 0]

\* Line 239.
InitDataFile ==
  /\ phase = "import"
  /\ \E outcome \in SaveOutcomes :
       /\ file' = init_data_file(file, outcome)
       /\ phase' = IF InitRaises(file, outcome) THEN "failed" ELSE "data"
  /\ UNCHANGED <<GEMINI_API_KEY, gemini_model, AI_ENABLED, nreq, accepted, sent, ret,
                 locals>>

\* Line 240, init_gemini(): without a key AI stays off; with one, the health
\* check call decides.
InitGemini ==
  /\ phase = "data"
  /\ phase' = "serving"
  /\ IF ~GEMINI_API_KEY
       THEN /\ AI_ENABLED' = FALSE
            /\ UNCHANGED <<gemini_model, invocations>>
       ELSE \E ok \in BOOLEAN :
              /\ invocations' = [invocations EXCEPT !["main"] = @ + 1]
              /\ AI_ENABLED' = ok
              /\ gemini_model' = IF ok THEN Model ELSE None
  /\ UNCHANGED <<GEMINI_API_KEY, file, nreq, accepted, sent, ret, pc, caller, req,
                 rating, review, attempt, ai_output, provided, ai_data, now, submission,
                 submissions>>

\* ------------------------------------------------------------ POST /submit
\* Lines 272-283: the locals and the outcome of parsing and validating one
\* body: an exception, a 400 message, or "" (go on to line 285).
Parsed(body) ==
  IF body.k = "bad"
    THEN [rating |-> Unset, review |-> Unset, exc |-> "BadRequest", error |-> ""]
  ELSE LET r == ToInt(GetRating(body))
           rv == GetReview(body)
       IN IF r.k = "raise"
            THEN [rating |-> Unset, review |-> Unset, exc |-> r.exc, error |-> ""]
          ELSE IF rv.k = "raise"
            THEN [rating |-> r, review |-> Unset, exc |-> rv.exc, error |-> ""]
          ELSE [rating |-> r, review |-> rv.v, exc |-> "", error |-> Validate(r.v, rv.v)]

\* A thread is given a POST /submit.
Receive(t) ==
  /\ phase = "serving"
  /\ pc[t] = "idle"
  /\ nreq < MaxRequests
  /\ nreq' = nreq + 1
  /\ \E body \in Bodies : req' = [req EXCEPT ![t] = body]
  /\ pc' = [pc EXCEPT ![t] = "submit"]
  /\ caller' = [caller EXCEPT ![t] = "submit_review"]
  /\ UNCHANGED <<phase, GEMINI_API_KEY, gemini_model, AI_ENABLED, file, accepted, sent,
                 ret, rating, review, attempt, ai_output, provided, ai_data, now, submission,
                 submissions, invocations>>

\* The handler returns: its locals are gone.
Forget(t) ==
  /\ pc' = [pc EXCEPT ![t] = "idle"]
  /\ caller' = [caller EXCEPT ![t] = ""]
  /\ req' = [req EXCEPT ![t] = Unset]
  /\ rating' = [rating EXCEPT ![t] = Unset]
  /\ review' = [review EXCEPT ![t] = Unset]
  /\ attempt' = [attempt EXCEPT ![t] = 0]
  /\ ai_output' = [ai_output EXCEPT ![t] = Unset]
  /\ provided' = [provided EXCEPT ![t] = Unset]
  /\ ai_data' = [ai_data EXCEPT ![t] = Unset]
  /\ now' = [now EXCEPT ![t] = 0]
  /\ submission' = [submission EXCEPT ![t] = NoRecord]
  /\ submissions' = [submissions EXCEPT ![t] = <<>>]
  /\ invocations' = [invocations EXCEPT ![t] = 0]

\* Lines 272-283.
Check(t) ==
  /\ pc[t] = "submit"
  /\ LET p == Parsed(req[t])
     IN IF p.exc # ""
          THEN sent' = ServerError(p.exc) /\ Forget(t)
        ELSE IF p.error # ""
          THEN sent' = ClientError(p.error) /\ Forget(t)
        ELSE /\ pc' = [pc EXCEPT ![t] = "gen"]
             /\ req' = [req EXCEPT ![t] = Unset]
             /\ rating' = [rating EXCEPT ![t] = p.rating]
             /\ review' = [review EXCEPT ![t] = p.review]
             /\ UNCHANGED <<sent, caller, attempt, ai_output, provided, ai_data, now,
                            submission, submissions, invocations>>
  /\ UNCHANGED <<phase, GEMINI_API_KEY, gemini_model, AI_ENABLED, file, nreq, accepted,
                 ret>>

\* generate_ai_responses, line 136: the first read of AI_ENABLED.
GenCheck(t) ==
  /\ pc[t] = "gen"
  /\ IF AI_ENABLED
       THEN /\ pc' = [pc EXCEPT ![t] = "content"]
            /\ UNCHANGED ai_data
       ELSE /\ pc' = [pc EXCEPT ![t] = "gen_done"]
            /\ ai_data' = [ai_data EXCEPT ![t] = FallbackLookup(rating[t].v)]
  /\ UNCHANGED <<globals, caller, req, rating, review, attempt, ai_output, provided, now,
                 submission, submissions, invocations>>

\* Line 102 without the test of AI_ENABLED.
Unavailable_ModelOnly(enabled, model) == model = None

\* generate_ai_content, line 102.
Unavailable(enabled, model) == ~enabled \/ model = None

ContentCheck(t) ==
  /\ pc[t] = "content"
  /\ IF Unavailable(AI_ENABLED, gemini_model)
       THEN /\ pc' = [pc EXCEPT ![t] = "gen_done"]
            /\ ai_output' = [ai_output EXCEPT ![t] = None]
            /\ ai_data' = [ai_data EXCEPT ![t] = ResponsesFrom(None, rating[t].v)]
            /\ UNCHANGED <<attempt, provided>>
       ELSE /\ pc' = [pc EXCEPT ![t] = "call"]
            /\ attempt' = [attempt EXCEPT ![t] = 0]
            /\ UNCHANGED <<ai_output, provided, ai_data>>
  /\ UNCHANGED <<globals, caller, req, rating, review, now, submission,
                 submissions, invocations>>

\* A return that switches AI back on.
FlagAfterReturn_Reset(enabled) == TRUE

\* Line 115 returns without touching AI_ENABLED.
FlagAfterReturn(enabled) == enabled

\* An inner handler that lets the exception of an attempt through.
AttemptCaught_Never(exc) == FALSE

\* Lines 116-118: the inner handler catches every exception of an attempt.
AttemptCaught(exc) == TRUE

\* Lines 107-118: one turn of the retry loop, one provider invocation.  An
\* exception the loop did not catch would reach line 311 of submit_review.
ProviderCall(t) ==
  /\ pc[t] = "call"
  /\ \E response \in Responses :
       LET r == AttemptResult(response)
       IN IF r.k = "raise"
            THEN IF AttemptCaught(r.exc)
                   THEN /\ attempt' = [attempt EXCEPT ![t] = @ + 1]
                        /\ pc' = [pc EXCEPT ![t] =
                                   IF attempt[t] + 1 < MAX_ATTEMPTS THEN "call" ELSE "disable"]
                        /\ invocations' = [invocations EXCEPT ![t] = @ + 1]
                        /\ provided' = [provided EXCEPT ![t] = response]
                        /\ UNCHANGED <<AI_ENABLED, sent, caller, req, rating, review,
                                       ai_output, ai_data, now, submission,
                                       submissions>>
                   ELSE /\ sent' = ServerError(r.exc)
                        /\ Forget(t)
                        /\ UNCHANGED AI_ENABLED
            ELSE /\ pc' = [pc EXCEPT ![t] = "gen_done"]
                 /\ AI_ENABLED' = FlagAfterReturn(AI_ENABLED)
                 /\ ai_output' = [ai_output EXCEPT ![t] = r]
                 /\ ai_data' = [ai_data EXCEPT ![t] = ResponsesFrom(r, rating[t].v)]
                 /\ invocations' = [invocations EXCEPT ![t] = @ + 1]
                 /\ provided' = [provided EXCEPT ![t] = response]
                 /\ UNCHANGED <<sent, caller, req, rating, review, attempt, now,
                                submission, submissions>>
  /\ UNCHANGED <<phase, GEMINI_API_KEY, gemini_model, file, nreq, accepted, ret>>

\* Lines 120-122: both attempts raised.
Disable(t) ==
  /\ pc[t] = "disable"
  /\ AI_ENABLED' = FALSE
  /\ pc' = [pc EXCEPT ![t] = "gen_done"]
  /\ ai_output' = [ai_output EXCEPT ![t] = None]
  /\ ai_data' = [ai_data EXCEPT ![t] = ResponsesFrom(None, rating[t].v)]
  /\ UNCHANGED <<phase, GEMINI_API_KEY, gemini_model, file, nreq, accepted, sent, ret,
                 caller, req, rating, review, attempt, provided, now, submission,
                 submissions, invocations>>

\* submissions.insert(0, submission)
AppendTo_Front(subs, rec) == <<rec>> \o subs

\* submissions.append(submission)
AppendTo(subs, rec) == Append(subs, rec)

\* Lines 287-298: the record, its id from datetime.now(), and the list read
\* from the file with the record appended; a value that is no list has no
\* append.  The locals of generate_ai_content are gone.
Load(t) ==
  /\ pc[t] = "gen_done"
  /\ caller[t] = "submit_review"
  /\ \E reading \in Clock :
       LET rec == Record(FormatId(reading), rating[t].v, review[t], ai_data[t])
           v == get_submissions(file)
       IN IF v.k = "list"
            THEN /\ now' = [now EXCEPT ![t] = reading]
                 /\ submission' = [submission EXCEPT ![t] = rec]
                 /\ submissions' = [submissions EXCEPT ![t] = AppendTo(v.recs, rec)]
                 /\ pc' = [pc EXCEPT ![t] = "save"]
                 /\ ai_output' = [ai_output EXCEPT ![t] = Unset]
                 /\ provided' = [provided EXCEPT ![t] = Unset]
                 /\ attempt' = [attempt EXCEPT ![t] = 0]
                 /\ invocations' = [invocations EXCEPT ![t] = 0]
                 /\ UNCHANGED <<sent, caller, req, rating, review, ai_data>>
            ELSE sent' = ServerError("AttributeError") /\ Forget(t)
  /\ file' = FileAfterRead(file)
  /\ UNCHANGED <<phase, GEMINI_API_KEY, gemini_model, AI_ENABLED, nreq, accepted, ret>>

\* Lines 299-313.
Save(t) ==
  /\ pc[t] = "save"
  /\ \E outcome \in SaveOutcomes :
       /\ file' = save_submissions(file, submissions[t], outcome)
       /\ IF SaveRaises(outcome)
            THEN /\ sent' = ServerError("OSError")
                 /\ UNCHANGED accepted
            ELSE /\ sent' = Success(ai_data[t].customer_response)
                 /\ accepted' = Append(accepted, [rec |-> submission[t], now |-> now[t]])
  /\ Forget(t)
  /\ UNCHANGED <<phase, GEMINI_API_KEY, gemini_model, AI_ENABLED, nreq, ret>>

\* ------------------------------------------------------------- GET /export
\* Lines 317-320.
Export(t) ==
  /\ phase = "serving"
  /\ pc[t] = "idle"
  /\ nreq < MaxRequests
  /\ nreq' = nreq + 1
  /\ sent' = Reply(200, "", <<>>, "", get_submissions(file))
  /\ file' = FileAfterRead(file)
  /\ UNCHANGED <<phase, GEMINI_API_KEY, gemini_model, AI_ENABLED, accepted, ret, locals>>

\* --------------------------------------------------------------- GET /admin
RECURSIVE SumRatings(_)
SumRatings(recs) ==
  IF recs = <<>> THEN 0 ELSE Head(recs).rating + SumRatings(Tail(recs))

\* rating_counts after the loop of lines 255-256.
RatingCounts(recs) ==
  [r \in MIN_RATING..MAX_RATING |->
     Cardinality({i \in DOMAIN recs : recs[i].rating = r})]

\* A quotient cut after two decimals.
Round2_Floor(num, den) == (100 * num) \div den

\* round(num / den, 2), in hundredths; a tie goes to the even neighbour.
Round2(num, den) ==
  LET q == (100 * num) \div den
      rem == (100 * num) % den
  IN IF 2 * rem > den \/ (2 * rem = den /\ q % 2 = 1) THEN q + 1 ELSE q

\* Lines 250-264: what the template is given.
Dashboard(recs, enabled) ==
  [k |-> "admin",
   submissions |-> recs,
   total |-> Len(recs),
   avg_rating |-> IF Len(recs) > 0 THEN Round2(SumRatings(recs), Len(recs)) ELSE 0,
   rating_counts |-> RatingCounts(recs),
   ai_enabled |-> enabled]

\* Lines 249-257: the file is read; len() of a number, the rating of an
\* object's key and a rating that is no key of rating_counts raise.
AdminLoad(t) ==
  /\ phase = "serving"
  /\ pc[t] = "idle"
  /\ nreq < MaxRequests
  /\ nreq' = nreq + 1
  /\ LET v == get_submissions(file)
     IN IF v.k = "list" /\ \A i \in DOMAIN v.recs : v.recs[i].rating \in MIN_RATING..MAX_RATING
          THEN /\ pc' = [pc EXCEPT ![t] = "admin"]
               /\ caller' = [caller EXCEPT ![t] = "admin_dashboard"]
               /\ submissions' = [submissions EXCEPT ![t] = v.recs]
               /\ UNCHANGED sent
          ELSE /\ sent' = Reply(500, "Internal Server Error", <<>>,
                                        IF v.k = "list" THEN "KeyError" ELSE "TypeError",
                                        Unset)
               /\ UNCHANGED <<pc, caller, submissions>>
  /\ file' = FileAfterRead(file)
  /\ UNCHANGED <<phase, GEMINI_API_KEY, gemini_model, AI_ENABLED, accepted, ret, req,
                 rating, review, attempt, ai_output, provided, ai_data, now, submission,
                 invocations>>

\* Lines 259-266: AI_ENABLED is read when the template is rendered.
AdminRender(t) ==
  /\ pc[t] = "admin"
  /\ sent' = Reply(200, "", <<>>, "", Dashboard(submissions[t], AI_ENABLED))
  /\ Forget(t)
  /\ UNCHANGED <<phase, GEMINI_API_KEY, gemini_model, AI_ENABLED, file, nreq, accepted,
                 ret>>

Next ==
  \/ InitDataFile
  \/ InitGemini
  \/ \E t \in Threads :
       \/ Receive(t)
       \/ Check(t)
       \/ GenCheck(t)
       \/ ContentCheck(t)
       \/ ProviderCall(t)
       \/ Disable(t)
       \/ Load(t)
       \/ Save(t)
       \/ Export(t)
       \/ AdminLoad(t)
       \/ AdminRender(t)

Spec == Init /\ [][Next]_vars

\* ------------------------------------- generate_ai_responses called directly
\* The process has been initialised (lines 239-240 have run) and its threads
\* call generate_ai_responses(rating, review) themselves, with any integer
\* around the table's keys.
CallRatings == (MIN_RATING - 1)..(MAX_RATING + 1)
CallReviews == {Str(0, 0, 0), Str(1, MAX_REVIEW_LEN, 1)}

InitCall ==
  /\ phase = "serving"
  /\ GEMINI_API_KEY \in BOOLEAN
  /\ AI_ENABLED \in {FALSE, GEMINI_API_KEY}
  /\ gemini_model = IF AI_ENABLED THEN Model ELSE None
  /\ file = JList(<<>>)
  /\ nreq = 0
  /\ accepted = <<>>
  /\ sent = NothingSent
  /\ ret = NoReturn
  /\ IdleThreads
  /\ invocations = [t \in Threads \cup {"main"} |->
                      IF t = "main" /\ GEMINI_API_KEY THEN 1 ELSE 0]

Call(t) ==
  /\ pc[t] = "idle"
  /\ nreq < MaxRequests
  /\ nreq' = nreq + 1
  /\ \E r \in CallRatings, rv \in CallReviews :
       /\ rating' = [rating EXCEPT ![t] = Value(r)]
       /\ review' = [review EXCEPT ![t] = rv]
  /\ pc' = [pc EXCEPT ![t] = "gen"]
  /\ caller' = [caller EXCEPT ![t] = "direct"]
  /\ UNCHANGED <<phase, GEMINI_API_KEY, gemini_model, AI_ENABLED, file, accepted, sent,
                 ret, req, attempt, ai_output, provided, ai_data, now, submission, submissions,
                 invocations>>

\* Line 232, or line 175: the caller has the triple.
CallReturn(t) ==
  /\ pc[t] = "gen_done"
  /\ caller[t] = "direct"
  /\ ret' = Return("generate_ai_responses", rating[t].v, ai_data[t])
  /\ Forget(t)
  /\ UNCHANGED <<phase, GEMINI_API_KEY, gemini_model, AI_ENABLED, file, nreq, accepted,
                 sent>>

NextCall ==
  \E t \in Threads :
    \/ Call(t)
    \/ GenCheck(t)
    \/ ContentCheck(t)
    \/ ProviderCall(t)
    \/ Disable(t)
    \/ CallReturn(t)

SpecCall == InitCall /\ [][NextCall]_vars

\* ------------------------------------------ the store functions on their own
\* DATA_FILE holds anything an editor or an earlier run left there, and the
\* three store functions are called one at a time.
StoreRecords ==
  { Record(FormatId(0), r, Str(0, 1, 0), FallbackLookup(r)) :
      r \in {MIN_RATING, NEUTRAL_RATING, MAX_RATING} }

RECURSIVE ListsUpTo(_)
ListsUpTo(n) ==
  IF n = 0 THEN { <<>> }
  ELSE ListsUpTo(n - 1)
         \cup { Append(l, rec) : l \in { m \in ListsUpTo(n - 1) : Len(m) = n - 1 },
                                 rec \in StoreRecords }

StoreLists == ListsUpTo(MaxStored)
StoreFiles == InitialFiles \cup { JList(l) : l \in StoreLists }

InitStore ==
  /\ phase = "store"
  /\ GEMINI_API_KEY = FALSE
  /\ gemini_model = None
  /\ AI_ENABLED = FALSE
  /\ file \in StoreFiles
  /\ nreq = 0
  /\ accepted = <<>>
  /\ sent = NothingSent
  /\ ret = NoReturn
  /\ IdleThreads
  /\ invocations = [t \in Threads \cup {"main"} |-> 0]

CallGetSubmissions ==
  /\ ret' = Return("get_submissions", file, get_submissions(file))
  /\ UNCHANGED <<phase, GEMINI_API_KEY, gemini_model, AI_ENABLED, file, nreq, accepted,
                 sent, locals>>

CallInitDataFile ==
  /\ \E outcome \in SaveOutcomes :
       /\ file' = init_data_file(file, outcome)
       /\ ret' = Return("init_data_file", file,
                        IF InitRaises(file, outcome) THEN Raise("OSError") ELSE None)
  /\ UNCHANGED <<phase, GEMINI_API_KEY, gemini_model, AI_ENABLED, nreq, accepted, sent,
                 locals>>

CallSaveSubmissions ==
  /\ \E subs \in StoreLists, outcome \in SaveOutcomes :
       /\ file' = save_submissions(file, subs, outcome)
       /\ ret' = Return("save_submissions", JList(subs),
                        IF SaveRaises(outcome) THEN Raise("OSError") ELSE None)
  /\ UNCHANGED <<phase, GEMINI_API_KEY, gemini_model, AI_ENABLED, nreq, accepted, sent,
                 locals>>

NextStore ==
  \/ CallGetSubmissions
  \/ CallInitDataFile
  \/ CallSaveSubmissions

SpecStore == InitStore /\ [][NextStore]_vars


\* ------------------------------ generate_ai_responses on any provider reply
\* One call of generate_ai_responses whose provider, when AI is on, answers
\* the first attempt with any text of at most MaxLines lines.  The call and
\* the reply are chosen at the start; the one step is the call.
ReplyLines ==
  { <<>>,
    <<RESPONSE_LABEL, BLANK, "A">>,
    <<RESPONSE_LABEL>>,
    <<"A", BLANK, RESPONSE_LABEL>>,
    <<SUMMARY_LABEL, BLANK, "B">>,
    <<BLANK, SUMMARY_LABEL, "B", SUMMARY_LABEL, BLANK>>,
    <<SUMMARY_LABEL, BLANK>>,
    <<SUGGESTIONS_LABEL, BLANK, "C", ",", BLANK, "D", ",", BLANK, "E">>,
    <<SUGGESTIONS_LABEL, BLANK, "C", "-", "D", "\\u2022">>,
    <<SUGGESTIONS_LABEL, BLANK, ",", BLANK, "-">> }

RECURSIVE SeqsUpTo(_, _)
SeqsUpTo(S, n) ==
  IF n = 0 THEN { <<>> }
  ELSE SeqsUpTo(S, n - 1)
         \cup { Append(q, x) : q \in { m \in SeqsUpTo(S, n - 1) : Len(m) = n - 1 },
                                x \in S }

ReplyTexts == SeqsUpTo(ReplyLines, MaxLines)

InitResponses ==
  /\ phase = "serving"
  /\ GEMINI_API_KEY = TRUE
  /\ gemini_model = Model
  /\ AI_ENABLED = TRUE
  /\ file = JList(<<>>)
  /\ nreq = 0
  /\ accepted = <<>>
  /\ sent = NothingSent
  /\ ret \in { Return("", [enabled |-> enabled, reply |-> reply, rating |-> r], Unset) :
                 enabled \in BOOLEAN, reply \in ReplyTexts, r \in CallRatings }
  /\ ~ret.arg.enabled => ret.arg.reply = <<>>
  /\ IdleThreads
  /\ invocations = [t \in Threads \cup {"main"} |-> IF t = "main" THEN 1 ELSE 0]

\* Lines 136-232, with AI_ENABLED as line 136 reads it and the reply that
\* lines 109-115 turn into the value of ai_output.
CallResponses ==
  /\ ret.fn = ""
  /\ LET out == AttemptResult(Response(Text(ret.arg.reply), NoCandidates))
         value == IF ret.arg.enabled
                    THEN ResponsesFrom(out, ret.arg.rating)
                    ELSE FallbackLookup(ret.arg.rating)
     IN ret' = Return("generate_ai_responses", ret.arg, value)
  /\ UNCHANGED <<phase, GEMINI_API_KEY, gemini_model, AI_ENABLED, file, nreq, accepted,
                 sent, locals>>

NextResponses == CallResponses

SpecResponses == InitResponses /\ [][NextResponses]_vars

\* ------------------------------------------- the read endpoints on any store
\* The process has been initialised, DATA_FILE holds anything, up to MaxShown
\* records of any rating, and only GET /admin and GET /export are called.
ShownRecords ==
  { Record(FormatId(0), r, Str(0, 1, 0), FallbackLookup(r)) : r \in MIN_RATING..MAX_RATING }

ShownFiles == InitialFiles \cup { JList(l) : l \in SeqsUpTo(ShownRecords, MaxShown) }

InitRead ==
  /\ phase = "serving"
  /\ GEMINI_API_KEY \in BOOLEAN
  /\ AI_ENABLED \in {FALSE, GEMINI_API_KEY}
  /\ gemini_model = IF AI_ENABLED THEN Model ELSE None
  /\ file \in ShownFiles
  /\ nreq = 0
  /\ accepted = <<>>
  /\ sent = NothingSent
  /\ ret = NoReturn
  /\ IdleThreads
  /\ invocations = [t \in Threads \cup {"main"} |->
                      IF t = "main" /\ GEMINI_API_KEY THEN 1 ELSE 0]

NextRead ==
  \E t \in Threads :
    \/ AdminLoad(t)
    \/ AdminRender(t)
    \/ Export(t)

SpecRead == InitRead /\ [][NextRead]_vars

\* ------------------------------------------------------------------ claims
Complete(tr) ==
  tr.customer_response # <<>> /\ tr.summary # <<>> /\ Len(tr.suggestions) >= 1

\* C1: for every rating in 1..5, whatever the flag is and whatever the
\* provider does on each attempt, generate_ai_responses returns, without
\* raising, a triple with a non-empty customer_response, a non-empty summary
\* and at least one suggestion.
C1_AlwaysCompleteTriple ==
  /\ sent = NothingSent
  /\ \A t \in Threads :
       (pc[t] = "gen_done" /\ rating[t].v \in 1..5) => Complete(ai_data[t])
  /\ (ret.fn = "generate_ai_responses" /\ ret.arg \in 1..5) => Complete(ret.value)

\* Both attempts of a call raised, the flag went off and the call still has a
\* complete triple.
C1_Witness ==
  \E t \in Threads :
    /\ pc[t] = "gen_done"
    /\ rating[t].v \in 1..5
    /\ invocations[t] = 2
    /\ ai_output[t] = None
    /\ ~AI_ENABLED
    /\ Complete(ai_data[t])

\* C2: when both attempts of one generate_ai_content call raise, the call
\* sets AI_ENABLED false and returns None; a generate_ai_content call that
\* starts while AI_ENABLED is false returns None with no provider invocation
\* and leaves AI_ENABLED false; and with the model in place a false
\* AI_ENABLED stays false, so that this holds for every later call.
C2_CircuitBreaker ==
  [][\A t \in Threads :
       /\ (gemini_model = Model /\ ~AI_ENABLED) => ~AI_ENABLED'
       /\ (pc[t] = "disable" /\ pc'[t] # "disable") =>
            /\ invocations[t] = 2
            /\ ~AI_ENABLED'
            /\ pc'[t] = "gen_done"
            /\ ai_output'[t] = None
       /\ (pc[t] = "content" /\ pc'[t] # "content" /\ ~AI_ENABLED) =>
            /\ pc'[t] = "gen_done"
            /\ ai_output'[t] = None
            /\ invocations'[t] = 0
            /\ ~AI_ENABLED']_vars

\* A call that started after another thread's call switched AI off has
\* returned None without an invocation.
C2_Witness ==
  \E t \in Threads :
    /\ pc[t] = "gen_done"
    /\ ai_output[t] = None
    /\ invocations[t] = 0
    /\ ~AI_ENABLED
    /\ gemini_model = Model

\* What the claim C3 calls an invalid body: a rating that is no integer in
\* 1..5, or a review that trims to nothing or to more than 1000 characters.
InvalidRating(v) ==
  \/ v.k = "int" /\ v.v \notin 1..5
  \/ v.k = "float" /\ v.v % 10 # 0
  \/ v.k = "str" /\ ~v.numeric
  \/ v.k = "null"

InvalidReview(v) ==
  \/ v.k \in {"missing", "null"}
  \/ v.k = "str" /\ (v.body = 0 \/ v.body > 1000)

InvalidBody(body) ==
  body.k = "object" /\ (InvalidRating(body.rating) \/ InvalidReview(body.review))

\* C3: a POST /submit whose rating is no integer in 1..5, or whose trimmed
\* review is empty or longer than 1000 characters, is answered 400 with an
\* error message, stores no record and makes no provider invocation.
C3_InvalidSubmitIs400 ==
  [][\A t \in Threads :
       (pc[t] = "submit" /\ pc'[t] # "submit" /\ InvalidBody(req[t])) =>
         /\ pc'[t] = "idle"
         /\ sent'.status = 400
         /\ sent'.error # ""
         /\ file' = file
         /\ invocations' = invocations]_vars

AcceptedRecords == [i \in DOMAIN accepted |-> accepted[i].rec]

\* C4 as stated: from an empty store, the store read after N submissions
\* answered 200 holds exactly their N records in the order of completion,
\* with pairwise distinct ids.
C4_StoreHoldsEveryAccepted ==
  phase = "serving" =>
    /\ get_submissions(file) = JList(AcceptedRecords)
    /\ \A i, j \in DOMAIN accepted : i # j => accepted[i].rec.id # accepted[j].rec.id

\* C4, amended: a submission loads the list in the file and adds its own
\* record at the end; when it is answered 200 the file holds that list, so
\* that, if the file still held the list it had loaded, every earlier record
\* is unchanged and in place and exactly one record is added at the end; and
\* the ids of two accepted submissions differ whenever their clock readings
\* differ.
C4_AppendOnlyPerWrite ==
  [][/\ \A t \in Threads :
          /\ (pc[t] = "gen_done" /\ pc'[t] = "save") =>
               submissions'[t] = Append(get_submissions(file).recs, submission'[t])
          /\ (pc[t] = "save" /\ pc'[t] = "idle" /\ sent'.status = 200) =>
               /\ file' = JList(submissions[t])
               /\ accepted' = Append(accepted, [rec |-> submission[t], now |-> now[t]])
               /\ file = JList(SubSeq(submissions[t], 1, Len(submissions[t]) - 1)) =>
                    /\ Len(file'.recs) = Len(file.recs) + 1
                    /\ \A i \in DOMAIN file.recs : file'.recs[i] = file.recs[i]
                    /\ file'.recs[Len(file'.recs)] = submission[t]
     /\ \A i, j \in DOMAIN accepted' :
          accepted'[i].now # accepted'[j].now =>
            accepted'[i].rec.id # accepted'[j].rec.id]_vars

\* Two submissions, one after the other at different clock readings: the
\* file holds both records in order.
C4_Witness ==
  /\ Len(accepted) = 2
  /\ accepted[1].now # accepted[2].now
  /\ file = JList(<<accepted[1].rec, accepted[2].rec>>)

\* C5: there is an interleaving of two valid submissions, both loading the
\* list before either saves, in which both are answered 200 and the store
\* afterwards holds the record of only the one that saved last: the save of
\* a submission whose loaded list lacks the record accepted just before it
\* replaces that record by its own, and the store does not grow.
C5_LostUpdate ==
  [][\A u \in Threads :
       ( /\ pc[u] = "save" /\ pc'[u] = "idle" /\ sent'.status = 200
         /\ accepted # <<>>
         /\ file = JList(Append(SubSeq(submissions[u], 1, Len(submissions[u]) - 1),
                                accepted[Len(accepted)].rec)) ) =>
         /\ Len(accepted') = Len(accepted) + 1
         /\ file' = JList(submissions[u])
         /\ Len(file'.recs) = Len(file.recs)
         /\ file'.recs[Len(file'.recs)] = submission[u]]_vars

\* Two different submissions were answered 200 and the file holds the second
\* one alone.
C5_Witness ==
  /\ Len(accepted) = 2
  /\ accepted[1].rec # accepted[2].rec
  /\ sent.status = 200
  /\ file = JList(<<accepted[2].rec>>)

ValidBody(body) ==
  /\ body.k = "object"
  /\ body.rating.k = "int" /\ body.rating.v \in 1..5
  /\ body.review.k = "str" /\ body.review.body \in 1..1000

\* C6: a valid POST /submit (rating in 1..5, trimmed review of 1..1000
\* characters) goes on to the pipeline, and whatever the provider does it is
\* answered 200 with a non-empty ai_response unless save_submissions raised.
C6_ValidSubmitSucceeds ==
  [][\A t \in Threads :
       /\ (pc[t] = "submit" /\ pc'[t] # "submit" /\ ValidBody(req[t])) =>
            pc'[t] = "gen"
       /\ (caller[t] = "submit_review" /\ pc[t] \in {"gen", "content", "call", "disable"}
             /\ pc'[t] # pc[t]) =>
            pc'[t] # "idle"
       /\ (caller[t] = "submit_review" /\ pc[t] = "gen_done" /\ pc'[t] # pc[t]) =>
            pc'[t] = "save"
       /\ (pc[t] = "save" /\ pc'[t] # pc[t]) =>
            /\ pc'[t] = "idle"
            /\ \/ sent'.status = 200 /\ sent'.ai_response # <<>>
               \/ sent'.status = 500 /\ sent'.exc = "OSError"]_vars

\* The only request so far had both provider attempts raise, which switched
\* AI off, and was answered 200 with a reply.
C6_Witness ==
  /\ nreq = 1
  /\ gemini_model = Model
  /\ ~AI_ENABLED
  /\ Len(accepted) = 1
  /\ sent.status = 200
  /\ sent.ai_response # <<>>

\* C7: get_submissions returns the empty list when DATA_FILE cannot be read
\* or parsed and also when it holds JSON that is no list; it never returns a
\* value that is no list.
C7_GetSubmissionsAlwaysList ==
  ret.fn = "get_submissions" =>
    /\ ret.value.k = "list"
    /\ ret.arg.k # "list" => ret.value = JList(<<>>)

\* C8: when the write of the store fails, POST /submit is answered 500 with
\* the generic message and never 200; a 200 is sent only by the step that
\* wrote the list with the new record.
C8_SaveFailureIs500 ==
  [][\A t \in Threads :
       /\ (pc[t] = "save" /\ pc'[t] = "idle") =>
            /\ sent'.status = 200 =>
                 file' = JList(submissions[t]) /\ Len(accepted') = Len(accepted) + 1
            /\ file' # JList(submissions[t]) =>
                 /\ sent'.status = 500
                 /\ sent'.error = "Internal server error"
                 /\ accepted' = accepted
       /\ (caller[t] = "submit_review" /\ pc[t] # "idle" /\ pc'[t] = "idle"
             /\ sent'.status = 200) =>
            pc[t] = "save"]_vars

\* A write failed part-way and the request was answered 500.
C8_Witness ==
  /\ sent = ServerError("OSError")
  /\ file = Corrupt
  /\ accepted = <<>>
  /\ nreq = 1

\* C9: once initialisation is over, AI_ENABLED never goes from false to
\* true.
C9_FlagStaysOff ==
  [][(phase = "serving" /\ ~AI_ENABLED) => ~AI_ENABLED']_vars

\* AI is off and a thread's provider call has just returned text.
C9_Witness ==
  /\ phase = "serving"
  /\ gemini_model = Model
  /\ ~AI_ENABLED
  /\ \E t \in Threads :
       pc[t] = "gen_done" /\ ai_output[t].k = "text" /\ invocations[t] >= 1

\* C10: with AI off, generate_ai_responses(r, review) returns the table
\* entry of r for r in 1..5 and the entry of 3 for any other integer.
C10_FallbackTotal ==
  \A t \in Threads :
    (pc[t] = "gen_done" /\ ai_output[t] = Unset) =>
      ai_data[t] = IF rating[t].v \in 1..5
                     THEN fallback_responses[rating[t].v]
                     ELSE fallback_responses[3]

\* With AI off, a call with rating 6 has the entry of 3, and that entry is
\* none of the entry of 5.
C10_Witness ==
  \E t \in Threads :
    /\ pc[t] = "gen_done"
    /\ ai_output[t] = Unset
    /\ rating[t].v = 6
    /\ ai_data[t] = fallback_responses[3]
    /\ ai_data[t] # fallback_responses[5]

\* The text 'RESPONSE TO CUSTOMER: A\nSUMMARY: B\nSUGGESTIONS: C, D, E'.
ThreeLines ==
  << <<RESPONSE_LABEL, BLANK, "A">>,
     <<SUMMARY_LABEL, BLANK, "B">>,
     <<SUGGESTIONS_LABEL, BLANK, "C", ",", BLANK, "D", ",", BLANK, "E">> >>

\* C11: when generate_ai_content has returned the three lines
\* 'RESPONSE TO CUSTOMER: A', 'SUMMARY: B', 'SUGGESTIONS: C, D, E', the
\* pipeline returns customer_response A, summary B and the suggestions C, D,
\* E in that order, whatever the rating is.
C11_ParserRoundTrip ==
  \A t \in Threads :
    (pc[t] = "gen_done" /\ ai_output[t] = Text(ThreeLines)) =>
      /\ ai_data[t].customer_response = <<"A">>
      /\ ai_data[t].summary = <<"B">>
      /\ ai_data[t].suggestions = << <<"C">>, <<"D">>, <<"E">> >>

\* A call with a rating outside the table got the three lines from the
\* provider and has the parsed triple.
C11_Witness ==
  \E t \in Threads :
    /\ pc[t] = "gen_done"
    /\ rating[t].v = 0
    /\ ai_output[t] = Text(ThreeLines)
    /\ ai_data[t] = Triple(<<"A">>, <<"B">>, << <<"C">>, <<"D">>, <<"E">> >>)

\* Line l starts, after white space, with the label and has something that
\* is no label and no white space.
LabelledLine(l, label) ==
  \E j \in DOMAIN l :
    /\ l[j] = label
    /\ \A i \in 1..(j - 1) : l[i] = BLANK
    /\ \E k \in DOMAIN l : l[k] \notin {BLANK, label}

HasThreeLabelledLines(reply) ==
  \A label \in {RESPONSE_LABEL, SUMMARY_LABEL, SUGGESTIONS_LABEL} :
    \E i \in DOMAIN reply : LabelledLine(reply[i], label)

TableEntry(r) == IF r \in 1..5 THEN fallback_responses[r] ELSE fallback_responses[3]

\* C12: generate_ai_responses returns something other than the table entry
\* of the rating only if AI is on and the provider text has a
\* 'RESPONSE TO CUSTOMER:' line, a 'SUMMARY:' line and a 'SUGGESTIONS:' line
\* each with a value; when AI is off, when there is no text, or when one of
\* the three labelled lines is missing or has no value, it returns exactly
\* the table entry.
C12_ProviderTripleOnlyIfComplete ==
  ret.fn = "generate_ai_responses" =>
    /\ ret.value # TableEntry(ret.arg.rating) =>
         ret.arg.enabled /\ HasThreeLabelledLines(ret.arg.reply)
    /\ (~ret.arg.enabled \/ ret.arg.reply = <<>> \/ ~HasThreeLabelledLines(ret.arg.reply)) =>
         ret.value = TableEntry(ret.arg.rating)
    /\ Complete(ret.value)

\* AI is on and the reply has a response line and a summary line but no
\* suggestions line: the result is the table entry.
C12_Witness ==
  /\ ret.fn = "generate_ai_responses"
  /\ ret.arg.enabled
  /\ ret.arg.reply = << <<RESPONSE_LABEL, BLANK, "A">>, <<SUMMARY_LABEL, BLANK, "B">> >>
  /\ ret.arg.rating = 4
  /\ ret.value = fallback_responses[4]

\* How many of the records have rating r, and the sum of the ratings of
\* records rated 1..5.
CountOf(recs, r) == Cardinality({ i \in DOMAIN recs : recs[i].rating = r })
RatingTotal(recs) ==
  CountOf(recs, 1) + 2 * CountOf(recs, 2) + 3 * CountOf(recs, 3)
    + 4 * CountOf(recs, 4) + 5 * CountOf(recs, 5)

\* C13: what GET /admin renders: total is the number of records;
\* rating_counts has, for each rating 1..5, the number of records of that
\* rating, and the five counts sum to total; avg_rating is 0 when there is
\* no record and else the hundredth nearest to the sum of the ratings
\* divided by total; ratings 5, 5, 1 give total 3, average 3.67 and counts
\* 1, 0, 0, 0, 2.
C13_AdminAggregation ==
  sent.payload.k = "admin" =>
    LET p == sent.payload
        n == Len(p.submissions)
        d == 100 * RatingTotal(p.submissions) - p.avg_rating * n
    IN /\ p.total = n
       /\ DOMAIN p.rating_counts = 1..5
       /\ \A r \in 1..5 : p.rating_counts[r] = CountOf(p.submissions, r)
       /\ p.rating_counts[1] + p.rating_counts[2] + p.rating_counts[3]
            + p.rating_counts[4] + p.rating_counts[5] = n
       /\ n = 0 => p.avg_rating = 0
       /\ n > 0 => (2 * d <= n /\ -2 * d <= n)
       /\ [i \in DOMAIN p.submissions |-> p.submissions[i].rating] = <<5, 5, 1>> =>
            /\ p.total = 3
            /\ p.avg_rating = 367
            /\ p.rating_counts = [r \in 1..5 |-> IF r = 1 THEN 1 ELSE IF r = 5 THEN 2 ELSE 0]

\* The dashboard of a store with ratings 5, 5, 1 has been rendered.
C13_Witness ==
  /\ sent.payload.k = "admin"
  /\ Len(sent.payload.submissions) = 3
  /\ sent.payload.submissions[1].rating = 5
  /\ sent.payload.submissions[2].rating = 5
  /\ sent.payload.submissions[3].rating = 1
  /\ sent.payload.avg_rating = 367

\* C14: every step of GET /admin and of GET /export leaves DATA_FILE (and so
\* the stored records), AI_ENABLED and gemini_model as they were and makes
\* no provider invocation, whatever the file holds and whatever the flag is.
C14_ReadsDoNotMutate ==
  [][/\ file' = file
     /\ get_submissions(file') = get_submissions(file)
     /\ AI_ENABLED' = AI_ENABLED
     /\ gemini_model' = gemini_model
     /\ invocations' = invocations]_vars

\* Both endpoints have been called on a file that cannot be parsed, the last
\* one was answered with no records, and the file is as it was.
C14_Witness ==
  /\ nreq = 2
  /\ file = Corrupt
  /\ sent.status = 200
  /\ sent.payload \in { JList(<<>>), Dashboard(<<>>, AI_ENABLED) }
  /\ \A t \in Threads : pc[t] = "idle"

\* A text with no white space and no line break at either end.
Trimmed(lines) ==
  /\ lines # <<>>
  /\ lines[1] # <<>> /\ lines[1][1] # BLANK
  /\ lines[Len(lines)] # <<>> /\ lines[Len(lines)][Len(lines[Len(lines)])] # BLANK

\* C15: one generate_ai_content call invokes the provider at most 2 times;
\* each invocation after the first follows an invocation of the same call
\* that raised; and an attempt that returns text ends the call at once with
\* that text, trimmed, and leaves AI_ENABLED as it was.
C15_BoundedRetry ==
  [][\A t \in Threads :
       /\ invocations'[t] <= 2
       /\ invocations'[t] > invocations[t] =>
            /\ pc[t] = "call"
            /\ invocations'[t] = invocations[t] + 1
            /\ invocations[t] = attempt[t]
            /\ invocations[t] < 2
       /\ (pc[t] = "call" /\ pc'[t] # "call" /\ ai_output'[t].k = "text") =>
            /\ pc'[t] = "gen_done"
            /\ Trimmed(ai_output'[t].lines)
            /\ ai_output'[t].lines \in {ThreeLines, NoSuggestionsLine.lines}
            /\ AI_ENABLED' = AI_ENABLED]_vars

\* The first attempt of a call raised, the second returned text, and AI is
\* still on.
C15_Witness ==
  \E t \in Threads :
    /\ pc[t] = "gen_done"
    /\ attempt[t] = 1
    /\ invocations[t] = 2
    /\ ai_output[t] = Text(ThreeLines)
    /\ AI_ENABLED

\* C16: every record in the store, which started empty and is written only
\* by POST /submit, has an integer rating in 1..5, a review of 1..1000
\* characters with no white space around it, a non-empty ai_response, a
\* non-empty ai_summary and at least one item in ai_actions, whether the
\* provider or the table produced them.
C16_RecordInvariant ==
  file.k = "list" =>
    \A i \in DOMAIN file.recs :
      LET rec == file.recs[i]
      IN /\ rec.rating \in 1..5
         /\ rec.review.k = "str"
         /\ rec.review.body \in 1..1000
         /\ rec.review.lead = 0 /\ rec.review.trail = 0
         /\ rec.ai_response # <<>>
         /\ rec.ai_summary # <<>>
         /\ Len(rec.ai_actions) >= 1

\* The store holds a record made from the provider's text and after it a
\* record made from the table.
C16_Witness ==
  /\ file.k = "list"
  /\ Len(file.recs) = 2
  /\ file.recs[1].ai_response = <<"A">>
  /\ file.recs[1].ai_actions = << <<"C">>, <<"D">>, <<"E">> >>
  /\ file.recs[2].rating = 5
  /\ file.recs[2].ai_summary = fallback_responses[5].summary

\* C17: when init_data_file returns, DATA_FILE holds a JSON list: the empty
\* list when the file was absent, could not be parsed or held something that
\* is no list, and the list it held before, unchanged, when it held a list.
\* (It returns unless one of its own writes fails.)
C17_InitDataFile ==
  ret.fn = "init_data_file" =>
    /\ ret.value = None =>
         /\ file.k = "list"
         /\ ret.arg.k # "list" => file = JList(<<>>)
         /\ ret.arg.k = "list" => file = ret.arg
    /\ ret.arg.k = "list" => ret.value = None

\* init_data_file found a JSON object in the file and left the empty list.
C17_Witness ==
  /\ ret = Return("init_data_file", JObject, None)
  /\ file = JList(<<>>)


\* The provider returned from the invocation and the reply carries no text.
EmptyReply(response) == response.k = "response" /\ Falsy(response.text)

\* What C18 promises of an invocation: the call ends at once with None, no
\* failure is counted and AI_ENABLED stays as it was.
EndsWithNone(t) ==
  /\ pc'[t] = "gen_done"
  /\ ai_output'[t] = None
  /\ attempt'[t] = attempt[t]
  /\ AI_ENABLED' = AI_ENABLED

\* C18 as stated: whenever the provider returns without raising and the
\* reply has no text, generate_ai_content returns None at once, counts no
\* failure, makes no further attempt and leaves AI_ENABLED as it was.
C18_EmptyReplyIsNoFailure ==
  [][\A t \in Threads :
       (invocations'[t] > invocations[t] /\ EmptyReply(provided'[t])) =>
         EndsWithNone(t)]_vars

\* C18, amended: a reply with no text and no candidates attribute ends the
\* call at once with None, counts no failure and leaves AI_ENABLED as it
\* was, so a later call invokes the provider again; a reply with no text
\* whose candidate list is empty raises IndexError at line 114, which is
\* counted as a failed attempt and retried or, at the second failure,
\* followed by the switch-off.
C18_EmptyTextIsNoFailure ==
  [][\A t \in Threads :
       (invocations'[t] > invocations[t] /\ EmptyReply(provided'[t])) =>
         IF provided'[t].cand.k = "absent"
           THEN EndsWithNone(t)
           ELSE /\ attempt'[t] = attempt[t] + 1
                /\ pc'[t] = (IF attempt'[t] < MAX_ATTEMPTS THEN "call" ELSE "disable")
                /\ ai_output'[t] = ai_output[t]
                /\ AI_ENABLED' = AI_ENABLED]_vars

\* The second attempt of a call got a reply with no text: the call has
\* returned None after two invocations and AI is still on.
C18_Witness ==
  \E t \in Threads :
    /\ pc[t] = "gen_done"
    /\ provided[t] = Response(EmptyText, NoCandidates)
    /\ ai_output[t] = None
    /\ attempt[t] = 1
    /\ invocations[t] = 2
    /\ AI_ENABLED

\* C19: whatever the interleaving of the requests that share AI_ENABLED, a
\* request invokes the provider at most 2 times; a request that enters
\* generate_ai_responses when the flag is already False takes its triple
\* from the table without any invocation, as does one that reaches line 102
\* after the flag went False; once a request has its triple it invokes the
\* provider no more; and the triple every request ends up with is complete.
C19_SharedFlagInterleavings ==
  [][\A t \in Threads :
       /\ invocations'[t] <= 2
       /\ (pc[t] \in {"gen", "content"} /\ ~AI_ENABLED /\ pc'[t] # pc[t]) =>
            /\ pc'[t] = "gen_done"
            /\ invocations'[t] = 0
            /\ ai_data'[t] = FallbackLookup(rating[t].v)
       /\ pc[t] = "gen_done" => invocations'[t] <= invocations[t]
       /\ pc'[t] = "gen_done" => Complete(ai_data'[t])]_vars

\* Two requests in flight: both attempts of one raised and it switched AI
\* off; the other entered generate_ai_responses after that and has a
\* complete triple from the table without having invoked the provider.
C19_Witness ==
  \E t, u \in Threads :
    /\ t # u
    /\ ~AI_ENABLED
    /\ pc[t] = "gen_done" /\ invocations[t] = 2 /\ attempt[t] = 2
    /\ Complete(ai_data[t])
    /\ pc[u] = "gen_done" /\ invocations[u] = 0 /\ ai_output[u] = Unset
    /\ Complete(ai_data[u])

=============================================================================
